---- MODULE Spec2Model ----
(***************************************************************************)
(* A model of src/parse_wiki.py: the text preprocessor and the text        *)
(* assembler / mention extractor of BgWikiParser._parse_doc, and the       *)
(* MentionRecord class.                                                    *)
(*                                                                         *)
(* A Python str is a sequence of one-character strings.  The parse tree    *)
(* produced by mwparserfromhell and rewritten by lines 213-296 is the      *)
(* input of the assembler: its top-level nodes are drawn one by one from   *)
(* the finite set Nodes.                                                   *)
(***************************************************************************)
EXTENDS Integers, Sequences, FiniteSets, TLC

VARIABLES
    output,     \* _parse_doc: the local `output`
    mentions,   \* _parse_doc: the local `mentions`, a list of MentionRecord
    node,       \* _parse_doc: the loop variable of the traversal (line 299)
    n,          \* number of top-level nodes the traversal has consumed
    pc,         \* "pre" | "loop" | "returned" | "raised" | "docs"
    result,     \* the value _parse_doc returned (line 365)
    error,      \* the exception that left _parse_doc, "" when none
    origin,     \* ghost: origin[k] is the number of the node that wrote output[k]
    wiki_doc,   \* _parse_doc: the local `wiki_doc` (lines 193-212)
    stage,      \* number of preprocessor substitutions applied to wiki_doc
    counter,    \* extract_docs: the local `counter` (line 111)
    parsed,     \* ghost: number of calls of _parse_doc made by extract_docs
    elems,      \* number of elements extract_docs took from the archive
    elem,       \* extract_docs: the kind of the loop variable `elem` (line 121)
    xpc,        \* extract_docs: "idle" | "iter" | "done" | "raised"
    max_records \* FLAGS.max_records

vars == <<output, mentions, node, n, pc, result, error, origin, wiki_doc, stage,
          counter, parsed, elems, elem, xpc, max_records>>

\* The state of extract_docs.
docvars == <<counter, parsed, elems, elem, xpc, max_records>>

\* Lines 36-38: the default of the max_records flag.
DefaultMaxRecords == 5

\* extract_docs is not running.
DocsIdle ==
    /\ counter = 0
    /\ parsed = 0
    /\ elems = 0
    /\ elem = "none"
    /\ xpc = "idle"
    /\ max_records = DefaultMaxRecords

\* ------------------------------------------------------------------ bounds

\* Top-level nodes of one document.
MaxNodes == 3

\* Fragments a raw markup string is assembled from.
MaxPieces == 3

\* Elements extract_docs takes from the archive.
MaxElems == 6

\* Largest value of the max_records flag besides its default.
MaxRecords == 2

\* ----------------------------------------------------------------- strings

\* A string literal as a sequence of characters.
Chars(s) == [i \in 1..Len(s) |-> SubSeq(s, i, i)]

Range(f) == {f[i] : i \in DOMAIN f}

LowerLetters == Chars("abcdefghijklmnopqrstuvwxyz")
UpperLetters == Chars("ABCDEFGHIJKLMNOPQRSTUVWXYZ")
Digits == Chars("0123456789")

\* \s of the re module, str.rstrip() and str.strip().
IsSpace(c) == c \in {" ", "\n", "\t"}

\* \w of the re module.
IsWord(c) == c \in Range(LowerLetters) \cup Range(UpperLetters) \cup Range(Digits) \cup {"_"}

LowerChar(c) ==
    IF c \in Range(UpperLetters)
    THEN LowerLetters[CHOOSE i \in DOMAIN UpperLetters : UpperLetters[i] = c]
    ELSE c

\* str.lower()
Lower(s) == [i \in DOMAIN s |-> LowerChar(s[i])]

\* Length of s without its trailing whitespace.
RStripLen(s) ==
    IF \E i \in DOMAIN s : ~IsSpace(s[i])
    THEN CHOOSE i \in DOMAIN s : ~IsSpace(s[i]) /\ \A j \in (i+1)..Len(s) : IsSpace(s[j])
    ELSE 0

\* str.rstrip()
RStrip(s) == SubSeq(s, 1, RStripLen(s))

\* str.strip()
Strip(s) ==
    IF \E i \in DOMAIN s : ~IsSpace(s[i])
    THEN SubSeq(s, CHOOSE i \in DOMAIN s : ~IsSpace(s[i]) /\ \A j \in 1..(i-1) : IsSpace(s[j]),
                RStripLen(s))
    ELSE <<>>

\* str.startswith(p)
StartsWith(s, p) == Len(s) >= Len(p) /\ SubSeq(s, 1, Len(p)) = p

\* p occurs in s at index i
MatchAt(s, i, p) == i >= 1 /\ i + Len(p) - 1 <= Len(s) /\ SubSeq(s, i, i + Len(p) - 1) = p

\* `p in s`
Contains(s, p) == \E i \in 1..(Len(s) + 1) : MatchAt(s, i, p)

\* s[i:] of Python, i a 0-based offset >= 0
SliceFrom(s, i) == SubSeq(s, i + 1, Len(s))

\* The subsequence of s at the indices outside D, in order.
RECURSIVE Remove(_, _, _)
Remove(s, D, i) ==
    IF i > Len(s) THEN <<>>
    ELSE IF i \in D THEN Remove(s, D, i + 1)
    ELSE <<s[i]>> \o Remove(s, D, i + 1)

\* First index >= i of s that holds no word character, Len(s)+1 when none.
RECURSIVE WordEnd(_, _)
WordEnd(s, i) == IF i <= Len(s) /\ IsWord(s[i]) THEN WordEnd(s, i + 1) ELSE i

\* re.findall(r'\w+', s) from index i on: the maximal runs of word characters.
RECURSIVE FindWordsFrom(_, _)
FindWordsFrom(s, i) ==
    IF i > Len(s) THEN <<>>
    ELSE IF IsWord(s[i])
         THEN <<SubSeq(s, i, WordEnd(s, i) - 1)>> \o FindWordsFrom(s, WordEnd(s, i))
         ELSE FindWordsFrom(s, i + 1)

FindWords(s) == FindWordsFrom(s, 1)

\* " ".join(words)
RECURSIVE Join(_)
Join(words) ==
    IF words = <<>> THEN <<>>
    ELSE IF Len(words) = 1 THEN words[1]
    ELSE words[1] \o <<" ">> \o Join(Tail(words))

\* ----------------------------------------------------------- MentionRecord

\* words[-5:]
LastFive(words) == SubSeq(words, IF Len(words) > 5 THEN Len(words) - 4 ELSE 1, Len(words))

\* words[:5]
FirstFive(words) == SubSeq(words, 1, IF Len(words) > 5 THEN 5 ELSE Len(words))

LeftTextNoSlice(left_text) == Join(FindWords(left_text))

\* MentionRecord.__init__: the stored left_text
LeftText(left_text) == Join(LastFive(FindWords(left_text)))

\* MentionRecord.__init__(link, left_text, text_len_link).  `at` is a ghost
\* field: the number of the node the mention was created for.
NewMention(link, left_text, text_len_link, at) ==
    [ link                    |-> link,
      left_text               |-> LeftText(left_text),
      right_text              |-> <<>>,
      satisfied_right_context |-> FALSE,
      text_len_link           |-> text_len_link,
      grab_right_text_pos     |-> Len(left_text) + 1 + text_len_link,
      at                      |-> at ]

\* MentionRecord.set_whole_text(text)
SetWholeText(m, text) ==
    [m EXCEPT !.right_text = Join(FirstFive(FindWords(SliceFrom(text, m.grab_right_text_pos))))]

\* MentionRecord.complete()
Complete(m) == m.satisfied_right_context

\* ------------------------------------------------ whitespace normalisation

\* The indices re.sub(r" *\n", r"\n", s) drops: each space of a run of spaces
\* that ends at a newline.
SpacesBeforeNewline(s) ==
    {k \in DOMAIN s : s[k] = " " /\ \E j \in (k+1)..Len(s) :
                          s[j] = "\n" /\ \A i \in k..(j-1) : s[i] = " "}

\* The indices re.sub(r"\n\n\n*", r"\n\n", s) drops: every newline after the
\* second of a run of newlines.
ExtraNewlines(s) ==
    {k \in DOMAIN s : k >= 3 /\ s[k] = "\n" /\ s[k-1] = "\n" /\ s[k-2] = "\n"}

\* Lines 344-345 on the whole accumulated output.
NormalizeWhitespace(s) ==
    LET a == Remove(s, SpacesBeforeNewline(s), 1)
    IN  Remove(a, ExtraNewlines(a), 1)

\* The ghost origins of the characters NormalizeWhitespace(s) keeps.
NormalizeOrigin(s, g) ==
    LET a == Remove(s, SpacesBeforeNewline(s), 1)
        h == Remove(g, SpacesBeforeNewline(s), 1)
    IN  Remove(h, ExtraNewlines(a), 1)

\* k copies of x
Repeat(x, k) == [i \in 1..k |-> x]

\* -------------------------------------------------------------------- dates

MonthNames == << Chars("january"), Chars("february"), Chars("march"), Chars("april"),
                 Chars("may"), Chars("june"), Chars("july"), Chars("august"),
                 Chars("september"), Chars("october"), Chars("november"), Chars("december") >>

DayNames == << Chars("Monday"), Chars("Tuesday"), Chars("Wednesday"), Chars("Thursday"),
               Chars("Friday"), Chars("Saturday"), Chars("Sunday") >>

IsDigit(c) == c \in Range(Digits)

DigitVal(c) == (CHOOSE i \in DOMAIN Digits : Digits[i] = c) - 1

RECURSIVE Number(_)
Number(ds) == IF ds = <<>> THEN 0 ELSE 10 * Number(SubSeq(ds, 1, Len(ds) - 1)) + DigitVal(ds[Len(ds)])

\* First index >= i of s that holds no whitespace, Len(s)+1 when none.
RECURSIVE SkipSpace(_, _)
SkipSpace(s, i) == IF i <= Len(s) /\ IsSpace(s[i]) THEN SkipSpace(s, i + 1) ELSE i

IsLeap(y) == (y % 4 = 0 /\ y % 100 # 0) \/ y % 400 = 0

DaysInMonth(y, m) ==
    IF m = 2 THEN (IF IsLeap(y) THEN 29 ELSE 28)
    ELSE IF m \in {4, 6, 9, 11} THEN 30 ELSE 31

RECURSIVE DaysBeforeMonth(_, _)
DaysBeforeMonth(y, m) == IF m = 1 THEN 0 ELSE DaysBeforeMonth(y, m - 1) + DaysInMonth(y, m - 1)

\* datetime.toordinal(): 1 is January 1 of year 1
Ordinal(y, m, d) ==
    365 * (y - 1) + ((y - 1) \div 4) - ((y - 1) \div 100) + ((y - 1) \div 400)
        + DaysBeforeMonth(y, m) + d

\* datetime.weekday(), Monday is 0
Weekday(y, m, d) == (Ordinal(y, m, d) + 6) % 7

NoDate == [ok |-> FALSE, year |-> 0, month |-> 0, day |-> 0]

\* datetime.datetime.strptime(s, "%B %d, %Y") (line 308): a full month name (any
\* case), whitespace, a day of one or two digits, a comma, whitespace, a year of
\* four digits and nothing more.  ok = FALSE stands for the ValueError.
ParseDate(s) ==
    LET low == Lower(s)
        ms  == {m \in DOMAIN MonthNames : MatchAt(low, 1, MonthNames[m])}
    IN  IF ms = {} THEN NoDate
        ELSE LET m  == CHOOSE x \in ms : TRUE
                 i1 == 1 + Len(MonthNames[m])
                 i2 == SkipSpace(s, i1)
                 i3 == IF i2 <= Len(s) /\ IsDigit(s[i2])
                       THEN (IF i2 + 1 <= Len(s) /\ IsDigit(s[i2 + 1]) THEN i2 + 2 ELSE i2 + 1)
                       ELSE i2
                 d  == Number(SubSeq(s, i2, i3 - 1))
                 i4 == SkipSpace(s, i3 + 1)
                 y  == Number(SubSeq(s, i4, Len(s)))
             IN  IF /\ i2 > i1
                    /\ i3 > i2
                    /\ i3 <= Len(s) /\ s[i3] = ","
                    /\ i4 > i3 + 1
                    /\ Len(s) = i4 + 3
                    /\ \A k \in i4..Len(s) : IsDigit(s[k])
                    /\ y >= 1
                    /\ d >= 1 /\ d <= DaysInMonth(y, m)
                 THEN [ok |-> TRUE, year |-> y, month |-> m, day |-> d]
                 ELSE NoDate

\* strptime(...).strftime("%A, ") for a date ParseDate accepted
WeekdayPrefix(dt) == DayNames[Weekday(dt.year, dt.month, dt.day) + 1] \o Chars(", ")

\* -------------------------------------------------------------------- nodes

\* mwparserfromhell Parameter: {{name|value}} (showkey false) or {{name|k=value}}
Positional(value) == [showkey |-> FALSE, name |-> <<>>, value |-> Chars(value)]
Named(name, value) == [showkey |-> TRUE, name |-> Chars(name), value |-> Chars(value)]

\* str(parameter)
ParamStr(p) == IF p.showkey THEN p.name \o <<"=">> \o p.value ELSE p.value

\* The node types of mwparserfromhell that reach line 299.  A field a type does
\* not have is empty; an absent link text (None) is empty as well, both are falsy.
Template(name, params) ==
    [type |-> "Template", name |-> Chars(name), params |-> params,
     title |-> <<>>, text |-> <<>>, value |-> <<>>]
Heading(title) ==
    [type |-> "Heading", name |-> <<>>, params |-> <<>>,
     title |-> Chars(title), text |-> <<>>, value |-> <<>>]
Text(value) ==
    [type |-> "Text", name |-> <<>>, params |-> <<>>,
     title |-> <<>>, text |-> <<>>, value |-> Chars(value)]
Wikilink(title, text) ==
    [type |-> "Wikilink", name |-> <<>>, params |-> <<>>,
     title |-> Chars(title), text |-> Chars(text), value |-> <<>>]
ExternalLink(url) ==
    [type |-> "ExternalLink", name |-> <<>>, params |-> <<>>,
     title |-> <<>>, text |-> <<>>, value |-> Chars(url)]

NoNode ==
    [type |-> "None", name |-> <<>>, params |-> <<>>,
     title |-> <<>>, text |-> <<>>, value |-> <<>>]

\* The top-level nodes a document is made of.
Nodes ==
    { Text("ab c. d e f g"), Text(" \n\n\n"),
      Heading(" Sources "), Heading("INTERVIEWS"), Heading("Related News"), Heading(" Hi "),
      Template("date", <<Positional("January 1, 2018")>>),
      Template("Date", <<Positional("March 3, 2018"), Positional("x")>>),
      Template("date", <<Positional("Jan 1")>>),
      Template("w", <<Positional("ab")>>),
      Template("W", <<Positional("ab"), Named("k", "v"), Positional("c d")>>),
      Template("w", <<Named("k", "v")>>),
      Template("hys", <<>>), Template("HaveYourSay", <<>>),
      Wikilink("File:x.jpg", ""), Wikilink("file:x", "y"),
      Wikilink("Ab", ""), Wikilink("Ab", "c d"), Wikilink("Ab", "e "),
      ExternalLink("http://x") }

\* ------------------------------------------------------------- preprocessor

\* First index j >= i with "}}" at j and no newline in s[i..j-1], 0 when none:
\* where the lazy .*? of line 193 ends ("." matches no newline).
RECURSIVE DirectiveClose(_, _)
DirectiveClose(s, i) ==
    IF i + 1 > Len(s) THEN 0
    ELSE IF MatchAt(s, i, Chars("}}")) THEN i
    ELSE IF s[i] = "\n" THEN 0
    ELSE DirectiveClose(s, i + 1)

\* Line 193: re.sub(r"\{\{DISPLAYTITLE.*?\}\}\s*", r"", s), from index i on.
RECURSIVE RemoveDisplayTitleFrom(_, _)
RemoveDisplayTitleFrom(s, i) ==
    IF i > Len(s) THEN <<>>
    ELSE IF MatchAt(s, i, Chars("{{DISPLAYTITLE")) /\ DirectiveClose(s, i + 14) # 0
         THEN RemoveDisplayTitleFrom(s, SkipSpace(s, DirectiveClose(s, i + 14) + 2))
         ELSE <<s[i]>> \o RemoveDisplayTitleFrom(s, i + 1)

RemoveDisplayTitle(s) == RemoveDisplayTitleFrom(s, 1)

\* First index >= i of s that holds an apostrophe, Len(s)+1 when none.
RECURSIVE NextQuote(_, _)
NextQuote(s, i) == IF i <= Len(s) /\ s[i] # "'" THEN NextQuote(s, i + 1) ELSE i

\* ([^'])'''([^']+)'''([^']) matches at i: a character that is no apostrophe,
\* three apostrophes, the run of other characters up to the next apostrophe,
\* three apostrophes, a character that is no apostrophe.
BoldAt(s, i) ==
    /\ i <= Len(s) /\ s[i] # "'"
    /\ MatchAt(s, i + 1, Chars("'''"))
    /\ NextQuote(s, i + 4) > i + 4
    /\ MatchAt(s, NextQuote(s, i + 4), Chars("'''"))
    /\ NextQuote(s, i + 4) + 3 <= Len(s)
    /\ s[NextQuote(s, i + 4) + 3] # "'"

\* Line 204: re.sub(r"([^'])'''([^']+)'''([^'])", r"\1\2\3", s), from index i on.
RECURSIVE RemoveBoldFrom(_, _)
RemoveBoldFrom(s, i) ==
    IF i > Len(s) THEN <<>>
    ELSE IF BoldAt(s, i)
         THEN <<s[i]>> \o SubSeq(s, i + 4, NextQuote(s, i + 4) - 1)
                       \o <<s[NextQuote(s, i + 4) + 3]>>
                       \o RemoveBoldFrom(s, NextQuote(s, i + 4) + 4)
         ELSE <<s[i]>> \o RemoveBoldFrom(s, i + 1)

RemoveBold(s) == RemoveBoldFrom(s, 1)

\* Line 208: re.sub(r"''", r"", s), from index i on.
RECURSIVE RemoveItalicsFrom(_, _)
RemoveItalicsFrom(s, i) ==
    IF i > Len(s) THEN <<>>
    ELSE IF MatchAt(s, i, Chars("''")) THEN RemoveItalicsFrom(s, i + 2)
    ELSE <<s[i]>> \o RemoveItalicsFrom(s, i + 1)

RemoveItalics(s) == RemoveItalicsFrom(s, 1)

\* Line 212: re.sub(r"__TOC__\s*", r"", s), from index i on.
RECURSIVE RemoveTocFrom(_, _)
RemoveTocFrom(s, i) ==
    IF i > Len(s) THEN <<>>
    ELSE IF MatchAt(s, i, Chars("__TOC__")) THEN RemoveTocFrom(s, SkipSpace(s, i + 7))
    ELSE <<s[i]>> \o RemoveTocFrom(s, i + 1)

RemoveToc(s) == RemoveTocFrom(s, 1)

\* Lines 193-212: the four substitutions in their order.
Preprocess(s) == RemoveToc(RemoveItalics(RemoveBold(RemoveDisplayTitle(s))))

\* The fragments raw markup is assembled from.
Pieces ==
    { Chars("'"), Chars("''"), Chars("a'''b"), Chars("b"), Chars(" "), Chars("\n"),
      Chars("__TOC__"), Chars("{{DISPLAYTITLE"), Chars("t}}") }

\* The concatenations of at most k fragments.
RECURSIVE Concatenations(_)
Concatenations(k) ==
    IF k = 0 THEN {<<>>}
    ELSE Concatenations(k - 1) \cup {d \o q : d \in Concatenations(k - 1), q \in Pieces}

RawDocs == Concatenations(MaxPieces)

\* Line 185: _parse_doc is called with a raw markup string.
InitPre ==
    /\ wiki_doc \in RawDocs
    /\ stage = 0
    /\ pc = "pre"
    /\ output = <<>>
    /\ mentions = <<>>
    /\ node = NoNode
    /\ n = 0
    /\ result = <<>>
    /\ error = ""
    /\ origin = <<>>
    /\ DocsIdle

\* Line 193
SubDisplayTitle ==
    /\ pc = "pre" /\ stage = 0
    /\ wiki_doc' = RemoveDisplayTitle(wiki_doc)
    /\ stage' = 1
    /\ UNCHANGED <<output, mentions, node, n, pc, result, error, origin>>
    /\ UNCHANGED docvars

\* Line 204
SubBold ==
    /\ pc = "pre" /\ stage = 1
    /\ wiki_doc' = RemoveBold(wiki_doc)
    /\ stage' = 2
    /\ UNCHANGED <<output, mentions, node, n, pc, result, error, origin>>
    /\ UNCHANGED docvars

\* Line 208
SubItalics ==
    /\ pc = "pre" /\ stage = 2
    /\ wiki_doc' = RemoveItalics(wiki_doc)
    /\ stage' = 3
    /\ UNCHANGED <<output, mentions, node, n, pc, result, error, origin>>
    /\ UNCHANGED docvars

\* Lines 212-213: the last substitution; its result is handed to the parser
SubToc ==
    /\ pc = "pre" /\ stage = 3
    /\ wiki_doc' = RemoveToc(wiki_doc)
    /\ stage' = 4
    /\ UNCHANGED <<output, mentions, node, n, pc, result, error, origin>>
    /\ UNCHANGED docvars

NextPre == SubDisplayTitle \/ SubBold \/ SubItalics \/ SubToc

SpecPre == InitPre /\ [][NextPre]_vars

\* ---------------------------------------------------------------- _parse_doc

\* Lines 329-333: the headings that end the article content.
EndHeadings == { Chars("interviews"), Chars("related news"), Chars("sources") }

IsEndHeadingCaseSensitive(title) == title \in EndHeadings

\* Line 329: title.lower() in [...]
IsEndHeading(title) == Lower(title) \in EndHeadings

IsFileLinkCaseSensitive(title) == StartsWith(title, Chars("file:"))

\* Line 349: title.lower().startswith("file:")
IsFileLink(title) == StartsWith(Lower(title), Chars("file:"))

\* Line 323: node_name == "hys" or node_name == "haveyoursay"
IsHaveYourSay(node_name) == node_name \in { Chars("hys"), Chars("haveyoursay") }

FinalTextNoStrip(out) == out \o Chars("\n\n")

\* Line 359: output.rstrip() + "\n\n"
FinalText(out) == RStrip(out) \o Chars("\n\n")

\* Lines 359-365, reached when the traversal ends or breaks: the output is
\* trimmed and closed, every mention gets its right context, the text is returned.
Finalize(out, org, ms) ==
    /\ output' = FinalText(out)
    /\ origin' = SubSeq(org, 1, RStripLen(out)) \o <<0, 0>>
    /\ mentions' = [k \in DOMAIN ms |-> SetWholeText(ms[k], FinalText(out))]
    /\ result' = FinalText(out)
    /\ pc' = "returned"
    /\ error' = ""

\* An exception leaves _parse_doc: nothing is returned, no mention is resolved.
Raise(e) ==
    /\ pc' = "raised"
    /\ error' = e
    /\ UNCHANGED <<output, origin, mentions, result>>

\* The traversal goes on to the next node.
Continue(out, org, ms) ==
    /\ output' = out
    /\ origin' = org
    /\ mentions' = ms
    /\ UNCHANGED <<pc, result, error>>

\* Line 299: the traversal takes the next top-level node.
Take(nd) ==
    /\ pc = "loop"
    /\ n < MaxNodes
    /\ node' = nd
    /\ n' = n + 1
    /\ UNCHANGED <<wiki_doc, stage>>
    /\ UNCHANGED docvars

DateAssertsFailParamsOnly(params, out) == Len(params) # 1

\* Lines 304-307: assert len(node.params) == 1; output = output.rstrip();
\* assert not output
DateAssertsFail(params, out) == Len(params) # 1 \/ RStrip(out) # <<>>

\* Lines 302-310: the date template.
DateTemplate(nd) ==
    /\ Take(nd)
    /\ nd.type = "Template"
    /\ Lower(nd.name) = Chars("date")
    /\ IF DateAssertsFail(nd.params, output) THEN Raise("AssertionError")
       ELSE LET p  == ParamStr(nd.params[1])
                dt == ParseDate(p)
                o  == WeekdayPrefix(dt) \o p \o Chars("\n\n")
            IN  IF ~dt.ok THEN Raise("ValueError")
                ELSE Continue(o, Repeat(n + 1, Len(o)), mentions)

\* Line 314: the parameters without "="
Unnamed(params) == SelectSeq(params, LAMBDA q : ~Contains(ParamStr(q), <<"=">>))

\* Lines 311-319: the wikipedia-link template.
WTemplate(nd) ==
    /\ Take(nd)
    /\ nd.type = "Template"
    /\ Lower(nd.name) = Chars("w")
    /\ LET unnamed_params == Unnamed(nd.params)
       IN  IF unnamed_params = <<>> THEN Raise("IndexError")
           ELSE LET title == unnamed_params[1].value
                    text  == IF Len(unnamed_params) >= 2
                             THEN unnamed_params[Len(unnamed_params)].value
                             ELSE title
                IN  Continue(output \o text, origin \o Repeat(n + 1, Len(text)), mentions)

\* Lines 320-324: any other template must be have-your-say, which ends the article.
HysTemplate(nd) ==
    /\ Take(nd)
    /\ nd.type = "Template"
    /\ Lower(nd.name) \notin { Chars("date"), Chars("w") }
    /\ IF IsHaveYourSay(Lower(nd.name))
       THEN Finalize(output, origin, mentions)
       ELSE Raise("AssertionError")

\* Line 336: output.rstrip() + "\n\n" + title + "\n\n"
HeadingText(out, title) == RStrip(out) \o Chars("\n\n") \o title \o Chars("\n\n")

\* Lines 325-336: a heading.
HeadingNode(nd) ==
    /\ Take(nd)
    /\ nd.type = "Heading"
    /\ LET title == Strip(nd.title)
       IN  IF IsEndHeading(title)
           THEN Finalize(output, origin, mentions)
           ELSE Continue(HeadingText(output, title),
                         SubSeq(origin, 1, RStripLen(output)) \o Repeat(n + 1, Len(title) + 4),
                         mentions)

\* Lines 337-345: a text run.
TextNode(nd) ==
    /\ Take(nd)
    /\ nd.type = "Text"
    /\ LET text == nd.value
           o    == output \o text
           g    == origin \o Repeat(n + 1, Len(text))
       IN  Continue(NormalizeWhitespace(o), NormalizeOrigin(o, g), mentions)

\* Line 351: str(node.text) if node.text else title
LinkRepr(nd) == IF nd.text # <<>> THEN nd.text ELSE nd.title

AddMentionFront(ms, nd, out, at) == <<NewMention(nd, out, Len(LinkRepr(nd)), at)>> \o ms

\* Line 354: mentions.append(MentionRecord(node, output, len(link_repr)))
AddMention(ms, nd, out, at) == Append(ms, NewMention(nd, out, Len(LinkRepr(nd)), at))

\* Lines 346-355: an internal link.
WikilinkNode(nd) ==
    /\ Take(nd)
    /\ nd.type = "Wikilink"
    /\ IF IsFileLink(nd.title)
       THEN Continue(output, origin, mentions)
       ELSE Continue(output \o LinkRepr(nd),
                     origin \o Repeat(n + 1, Len(LinkRepr(nd))),
                     AddMention(mentions, nd, output, n + 1))

\* Lines 356-357: any other node.  `logging` is the standard library's (line 17):
\* logging.fatal is logging.critical, it writes a record and returns.
OtherNode(nd) ==
    /\ Take(nd)
    /\ nd.type \notin {"Template", "Heading", "Text", "Wikilink"}
    /\ Continue(output, origin, mentions)

\* Line 299: the traversal is exhausted.
EndOfNodes ==
    /\ pc = "loop"
    /\ Finalize(output, origin, mentions)
    /\ UNCHANGED <<node, n, wiki_doc, stage>>
    /\ UNCHANGED docvars

\* Lines 186-188 and 213: the state when the traversal starts.
Init ==
    /\ output = <<>>
    /\ mentions = <<>>
    /\ node = NoNode
    /\ n = 0
    /\ pc = "loop"
    /\ result = <<>>
    /\ error = ""
    /\ origin = <<>>
    /\ DocsIdle
    /\ wiki_doc = <<>>
    /\ stage = 4

Next ==
    \/ \E nd \in Nodes : DateTemplate(nd)
    \/ \E nd \in Nodes : WTemplate(nd)
    \/ \E nd \in Nodes : HysTemplate(nd)
    \/ \E nd \in Nodes : HeadingNode(nd)
    \/ \E nd \in Nodes : TextNode(nd)
    \/ \E nd \in Nodes : WikilinkNode(nd)
    \/ \E nd \in Nodes : OtherNode(nd)
    \/ EndOfNodes

Spec == Init /\ [][Next]_vars

\* ------------------------------------------------------------- extract_docs

\* Line 127: text_elem is None or text_elem.text is None
LacksText(kind) == kind = "page_without_text"

\* Line 170: counter > FLAGS.max_records
LimitReached(c, limit) == c > limit

\* What iterparse yields (line 121): an element that is no page, a page
\* without revision text, a page with revision text.
ElemKinds == {"other", "page_without_text", "page"}

\* Line 121: the loop takes the next element of the archive.
NextElem(kind) ==
    /\ xpc = "iter"
    /\ elems < MaxElems
    /\ elem' = kind
    /\ elems' = elems + 1
    /\ UNCHANGED <<max_records, output, mentions, node, n, pc, result, error, origin,
                   wiki_doc, stage>>

\* Lines 122-123: not a page, continue.
NonPageElem ==
    /\ NextElem("other")
    /\ UNCHANGED <<counter, parsed, xpc>>

\* Lines 126-130: a page without revision text is cleared and skipped.
PageSkipped ==
    /\ \E kind \in ElemKinds : kind # "other" /\ LacksText(kind) /\ NextElem(kind)
    /\ UNCHANGED <<counter, parsed, xpc>>

\* Lines 140-171: the page's text is handed to _parse_doc, which returns; the
\* counter is incremented and compared with the limit.
PageParsed ==
    /\ \E kind \in ElemKinds : kind # "other" /\ ~LacksText(kind) /\ NextElem(kind)
    /\ parsed' = parsed + 1
    /\ counter' = counter + 1
    /\ xpc' = IF LimitReached(counter + 1, max_records) THEN "done" ELSE "iter"

\* Line 168: _parse_doc raises (an assert, strptime); the exception leaves
\* extract_docs before the counter is incremented.
PageParseRaises ==
    /\ \E kind \in ElemKinds : kind # "other" /\ ~LacksText(kind) /\ NextElem(kind)
    /\ parsed' = parsed + 1
    /\ counter' = counter
    /\ xpc' = "raised"

\* Line 121: the archive is exhausted.
EndOfArchive ==
    /\ xpc = "iter"
    /\ xpc' = "done"
    /\ UNCHANGED <<counter, parsed, elems, elem, max_records, output, mentions, node, n,
                   pc, result, error, origin, wiki_doc, stage>>

\* Lines 105-119: extract_docs starts, with the flag as configured.
InitDocs ==
    /\ xpc = "iter"
    /\ counter = 0
    /\ parsed = 0
    /\ elems = 0
    /\ elem = "none"
    /\ max_records \in (0..MaxRecords) \cup {DefaultMaxRecords}
    /\ pc = "docs"
    /\ output = <<>>
    /\ mentions = <<>>
    /\ node = NoNode
    /\ n = 0
    /\ result = <<>>
    /\ error = ""
    /\ origin = <<>>
    /\ wiki_doc = <<>>
    /\ stage = 0

NextDocs == NonPageElem \/ PageSkipped \/ PageParsed \/ PageParseRaises \/ EndOfArchive

SpecDocs == InitDocs /\ [][NextDocs]_vars

\* ------------------------------------------------------------------- claims

\* The step in which the traversal takes one more node, node'.
TakesNode == pc = "loop" /\ n' = n + 1

\* s.split(" ")
RECURSIVE SplitSpaces(_)
SplitSpaces(s) ==
    IF \E i \in DOMAIN s : s[i] = " "
    THEN LET i == CHOOSE x \in DOMAIN s : s[x] = " " /\ \A y \in 1..(x-1) : s[y] # " "
         IN  <<SubSeq(s, 1, i - 1)>> \o SplitSpaces(SubSeq(s, i + 1, Len(s)))
    ELSE <<s>>

\* The tokens of a stored context.
Tokens(ctx) == IF ctx = <<>> THEN <<>> ELSE SplitSpaces(ctx)

\* The indices of the output that hold the display text of mention m.
LinkChars(m) == {i \in DOMAIN origin : origin[i] = m.at}

Max(S) == CHOOSE x \in S : \A y \in S : y <= x

Min(S) == CHOOSE x \in S : \A y \in S : x <= y

\* C1: once the document is returned, the right context of every mention is the
\* first five words of the final text that follows the mention's display text.
C1_RightContextFollowsLink ==
    pc = "returned" =>
        \A k \in DOMAIN mentions :
            LinkChars(mentions[k]) # {} =>
                mentions[k].right_text =
                    Join(FirstFive(FindWords(SubSeq(output, Max(LinkChars(mentions[k])) + 1,
                                                    Len(output)))))

ContextOK(ctx) ==
    /\ Len(Tokens(ctx)) <= 5
    /\ \A i \in DOMAIN Tokens(ctx) :
           Tokens(ctx)[i] # <<>> /\ \A c \in Range(Tokens(ctx)[i]) : IsWord(c)

\* C2: at every moment, the left and the right context of every mention hold at
\* most five tokens, each a non-empty run of word characters.
C2_ContextsBounded ==
    \A k \in DOMAIN mentions :
        ContextOK(mentions[k].left_text) /\ ContextOK(mentions[k].right_text)

\* A mention resolved with five tokens on each side, cut from a text of more
\* than five words on each side.
C2_Witness ==
    /\ pc = "returned"
    /\ \E k \in DOMAIN mentions :
           /\ Len(Tokens(mentions[k].left_text)) = 5
           /\ Len(Tokens(mentions[k].right_text)) = 5
           /\ LinkChars(mentions[k]) # {}
           /\ Len(FindWords(SubSeq(output, 1, Min(LinkChars(mentions[k])) - 1))) > 5
           /\ Len(FindWords(SubSeq(output, Max(LinkChars(mentions[k])) + 1, Len(output)))) > 5

TitleEndsArticle(title) ==
    Lower(Strip(title)) \in {Chars("interviews"), Chars("related news"), Chars("sources")}

SameLinks(ms1, ms2) ==
    Len(ms1) = Len(ms2) /\ \A k \in DOMAIN ms1 : ms1[k].at = ms2[k].at /\ ms1[k].link = ms2[k].link

\* C3: a heading titled interviews, related news or sources (trimmed, any case)
\* ends the traversal: the text returned is the text assembled before the
\* heading, trimmed and closed by a paragraph break, the mention list gets no
\* entry, and after the return no node is taken and nothing changes.
C3_EndHeadingStops ==
    [][ /\ (TakesNode /\ node'.type = "Heading" /\ TitleEndsArticle(node'.title)) =>
            /\ pc' = "returned"
            /\ output' = FinalText(output)
            /\ result' = output'
            /\ SameLinks(mentions', mentions)
        /\ pc = "returned" => UNCHANGED <<output, mentions, n, node, result, pc>> ]_vars

C3_Witness ==
    /\ pc = "returned"
    /\ node.type = "Heading" /\ TitleEndsArticle(node.title)
    /\ n = 2 /\ n < MaxNodes
    /\ Len(mentions) = 1

NameIsHaveYourSay(name) == Lower(name) \in {Chars("hys"), Chars("haveyoursay")}

\* C4: a have-your-say template (hys or haveyoursay, any case) ends the
\* traversal at once: the text returned is the text assembled before it with
\* its trailing whitespace removed and two newlines added, the mention list
\* keeps its entries, and after the return no node is taken.
C4_HaveYourSayStops ==
    [][ /\ (TakesNode /\ node'.type = "Template" /\ NameIsHaveYourSay(node'.name)) =>
            /\ pc' = "returned"
            /\ result' = RStrip(output) \o <<"\n", "\n">>
            /\ output' = result'
            /\ SameLinks(mentions', mentions)
        /\ pc = "returned" => n' = n /\ result' = result /\ mentions' = mentions ]_vars

C4_Witness ==
    /\ pc = "returned"
    /\ node.type = "Template" /\ NameIsHaveYourSay(node.name)
    /\ n = 2 /\ n < MaxNodes
    /\ Len(result) > 2

TitleIsFile(title) == StartsWith(Lower(title), Chars("file:"))

\* C5: an internal link whose title starts with file: (any case) changes neither
\* the output nor the mention list, and the traversal goes on.
C5_FileLinkSkipped ==
    [][ (TakesNode /\ node'.type = "Wikilink" /\ TitleIsFile(node'.title)) =>
            /\ output' = output
            /\ mentions' = mentions
            /\ pc' = "loop" ]_vars

C5_Witness ==
    /\ pc = "loop"
    /\ node.type = "Wikilink" /\ TitleIsFile(node.title)
    /\ n = 2
    /\ Len(mentions) = 1 /\ output # <<>>

\* C6: the mentions are listed in the order in which their display texts stand
\* in the output, and a step never reorders or drops a mention already listed.
C6_MentionOrder ==
    /\ [](\A j, k \in DOMAIN mentions :
              j < k => \A a \in LinkChars(mentions[j]) : \A b \in LinkChars(mentions[k]) : a < b)
    /\ [][ /\ Len(mentions') >= Len(mentions)
           /\ \A k \in DOMAIN mentions :
                  mentions'[k].at = mentions[k].at /\ mentions'[k].link = mentions[k].link ]_vars

C6_Witness ==
    /\ pc = "returned"
    /\ Len(mentions) = 2
    /\ \A k \in DOMAIN mentions : LinkChars(mentions[k]) # {}

\* C8: a node that is no template, heading, text run or internal link is fatal:
\* once the traversal has taken it, _parse_doc has raised.
C8_UnrecognizedNodeIsFatal ==
    node.type \notin {"None", "Template", "Heading", "Text", "Wikilink"} => pc = "raised"

NameIsDate(name) == Lower(name) = Chars("date")

Unresolved(ms) == \A k \in DOMAIN ms : ms[k].right_text = <<>>

\* C9: a date template met when the trimmed output is not empty, or with a
\* number of parameters other than one, aborts the document: nothing is
\* returned and no mention is resolved.  An accepted date template makes the
\* output a weekday name, ", ", the date string and two newlines.
C9_DateFirstOrAbort ==
    [][ /\ ( /\ TakesNode /\ node'.type = "Template" /\ NameIsDate(node'.name)
             /\ (RStrip(output) # <<>> \/ Len(node'.params) # 1) ) =>
            /\ pc' = "raised" /\ error' # ""
            /\ result' = <<>>
            /\ Unresolved(mentions')
        /\ (TakesNode /\ node'.type = "Template" /\ NameIsDate(node'.name) /\ pc' = "loop") =>
            \E d \in DOMAIN DayNames :
                output' = DayNames[d] \o <<",", " ">> \o ParamStr(node'.params[1]) \o <<"\n", "\n">>
        /\ pc = "raised" => pc' = "raised" /\ result' = <<>> /\ Unresolved(mentions') ]_vars

\* A date template with one parameter that aborts after a mention was recorded.
C9_Witness ==
    /\ pc = "raised" /\ error = "AssertionError"
    /\ node.type = "Template" /\ NameIsDate(node.name) /\ Len(node.params) = 1
    /\ Len(mentions) = 1

\* C10: for a finalized mention, complete() is true exactly when the right
\* context holds more than three tokens.
C10_RightCompleteFlag ==
    pc = "returned" =>
        \A k \in DOMAIN mentions :
            Complete(mentions[k]) <=> Len(Tokens(mentions[k].right_text)) > 3

\* C7: the preprocessor is idempotent: applied to its own output it returns
\* that output unchanged.
C7_PreprocessIdempotent == stage = 4 /\ pc = "pre" => Preprocess(wiki_doc) = wiki_doc

\* C11: in one run of extract_docs the number of documents handed to
\* _parse_doc never exceeds max_records.
C11_LimitRespected == pc = "docs" => parsed <= max_records

\* The other half of C11: a page that lacks revision text is neither parsed
\* nor counted.
C11_SkippedNotCounted ==
    [][ (pc = "docs" /\ elems' = elems + 1 /\ elem' = "page_without_text") =>
            parsed' = parsed /\ counter' = counter /\ xpc' = xpc ]_vars

====
